---- MODULE Spec2Model ----
(***************************************************************************)
(* FraudgraphRAG: the graph-context retrieval and scoring pipeline.        *)
(*                                                                         *)
(* The property graph (Neo4j) is modelled by what the Cypher statements of *)
(* the repository do to it: nodes carry a graph-native integer id (their   *)
(* position of creation), a label, an "id" property and an ordered list of *)
(* properties; relationships carry their start and end native ids, their   *)
(* type and the "type" property that update_graph copies onto them.        *)
(*                                                                         *)
(* Specification Spec: the sample-data loader (init_data.init_neo4j), then *)
(* calls of GraphRAG.update_graph / retrieve_context / predict_fraud and   *)
(* of the /predict route, one request at a time.                           *)
(* Specification SpecBuild: GraphRAG._create_graph_data applied to inputs  *)
(* drawn from bounded sets.                                                *)
(* Specification SpecGnn: FraudDetector.train / evaluate and               *)
(* FraudGNN.predict called on one model, one call after the other.         *)
(* Specification SpecApi: the API process, with requests arriving while a  *)
(* handler runs on the event loop.                                         *)
(* Specification SpecWrites: repeated GraphRAG.update_graph on one store.  *)
(* Specification SpecDedup: retrieval over relationships that one          *)
(* update_graph declared of different types.                               *)
(* Specification SpecTrain: one call of FraudDetector.train, ten epochs    *)
(* long.                                                                   *)
(* Specification SpecSave: FraudDetector.save_model / load_model between   *)
(* calls of train and predict.                                             *)
(* Specification SpecLayers: the FraudGNN constructor over bounded         *)
(* arguments, then forward.                                                *)
(* Specification SpecKafka: KafkaClient and the TransactionProcessor       *)
(* callback of its consume loop.                                           *)
(* Specification SpecGenerator: TransactionGenerator.start / stop against  *)
(* the thread running generate_and_send, with weak fairness of the         *)
(* thread's steps.                                                         *)
(***************************************************************************)
EXTENDS Integers, Sequences, FiniteSets, TLC

VARIABLES
    initPhase,    \* position of init_data.init_neo4j, or "skipped"
    constraints,  \* TRUE once the uniqueness constraints exist in the store
    storeNodes,   \* Seq of node records; native id = index - 1
    storeRels,    \* Seq of relationship records; relationship id = index
    pairIdx,      \* init_neo4j: index into the (i, j) connection pairs
    apiWrites,    \* number of update_graph calls made (bounded)
    pc,           \* position of the current request
    req,          \* the current request's arguments
    pending,      \* records of the traversal result not yet iterated
    nodes,        \* _get_subgraph: nodes
    edges,        \* _get_subgraph: edges
    seen_nodes,   \* _get_subgraph: seen_nodes
    seen_edges,   \* _get_subgraph: seen_edges
    tensor,       \* the Data object built by _create_graph_data
    outcome,      \* how the request ended: a result or the exception raised
    storeBefore,  \* the store as it was when the current request started
    observed,     \* per edge key, the first and the last relationship iterated
    steps,        \* the steps the current scoring call has executed, in order
    training,     \* gnn_model.training (torch.nn.Module)
    params,       \* the model's parameters: the optimizer steps applied so far
    passes,       \* the forward passes of the current call
    modelBefore,  \* the model state as it was when the current call started
    epoch,        \* FraudDetector.train: the epoch loop counter
    batch,        \* FraudDetector.train / evaluate: position in the data list
    calls,        \* number of calls made on the detector or the model (bounded)
    arrived,      \* requests received by the API process and not yet started
    suspended,    \* handlers waiting at an await, with their position
    total_loss,   \* FraudDetector.train: total_loss of the current epoch
    avg_loss,     \* FraudDetector.train: avg_loss of the last finished epoch
    printed,      \* FraudDetector.train: the (epoch, loss) lines printed
    losses,       \* the per-example losses of the current epoch, in order
    stepLog,      \* the optimizer steps of the current call: (epoch, index)
    nan_params,   \* TRUE once an optimizer step wrote non-finite parameters
    files,        \* torch.save / torch.load: the state_dict stored per path
    savedFrom,    \* per path, the parameters the model had when it was saved
    num_layers,   \* FraudGNN.num_layers
    conv_layers,  \* FraudGNN.conv_layers: the GCNConv layers, in order
    applied,      \* forward: the conv layers applied so far
    x_width,      \* forward: the number of columns of x
    producer,     \* KafkaClient.producer
    consumer,     \* KafkaClient.consumer
    closed,       \* the Kafka connections on which close() was called
    processed_count, \* TransactionProcessor.processed_count
    fraud_count,  \* TransactionProcessor.fraud_count
    delivered,    \* the transactions handed to process_transaction, in order
    alerts,       \* the transaction ids produce_alert was called with, in order
    running,      \* TransactionGenerator.running
    thread,       \* TransactionGenerator.thread: None, or the thread's state
    genPc,        \* position of the generator thread in generate_and_send
    mainPc,       \* position of the controlling thread in start() / stop()
    transaction,  \* generate_and_send: the transaction of the current pass
    lateCall,     \* TRUE once produce_transaction began after stop() returned
    cycles        \* number of start() calls made (bounded)

vars == <<initPhase, constraints, storeNodes, storeRels, pairIdx,
          apiWrites, pc, req, pending, nodes, edges, seen_nodes, seen_edges,
          tensor, outcome, storeBefore, observed, steps, training, params,
          passes, modelBefore, epoch, batch, calls, arrived, suspended,
          total_loss, avg_loss, printed, losses, stepLog, nan_params, files,
          savedFrom, num_layers, conv_layers, applied, x_width,
          producer, consumer, closed, processed_count, fraud_count, delivered,
          alerts, running, thread, genPc, mainPc, transaction, lateCall, cycles>>

storeVars == <<initPhase, constraints, storeNodes, storeRels, pairIdx>>
subVars == <<pending, nodes, edges, seen_nodes, seen_edges, observed>>
gnnVars == <<training, params, passes, modelBefore, epoch, batch, calls>>
apiVars == <<arrived, suspended>>
lossVars == <<total_loss, avg_loss, printed, losses, stepLog>>
fileVars == <<nan_params, files, savedFrom>>
archVars == <<num_layers, conv_layers, applied, x_width>>
clientVars == <<producer, consumer, closed>>
procVars == <<processed_count, fraud_count, delivered, alerts>>
genVars == <<running, thread, genPc, mainPc, transaction, lateCall, cycles>>
kafkaVars == <<clientVars, procVars, genVars>>
extVars == <<lossVars, fileVars, archVars, kafkaVars>>

----------------------------------------------------------------------------
(* Bounds of the model *)

MaxUsers == 2
MaxInitTx == 2
MaxApiWrites == 1
MaxRelationships == 2
MaxDepth == 2
MaxBuildNodes == 2
MaxBuildEdges == 1

(* Program constants *)

InputDim == 64
DefaultDepth == 2
ConnectWindow == 3

\* the "id" property values: the loader's k-th user and k-th transaction
\* (uuid4 strings in the source, never repeated), and one more of each that
\* only a caller of the API can name
UserId(k) == "U" \o ToString(k)
TxId(k) == "T" \o ToString(k)
UserIds == {UserId(k) : k \in 1..(MaxUsers + 1)}
TxIds == {TxId(k) : k \in 1..(MaxInitTx + 1)}
AllIds == UserIds \cup TxIds
\* the label random.choice([0, 1]) gives the loader's k-th transaction
LabelOf(k) == k % 2
ProbLevels == {0, 50, 100}
DefaultThreshold == 50

None == [some |-> FALSE, val |-> <<>>]
Some(v) == [some |-> TRUE, val |-> v]

Range(s) == {s[i] : i \in 1..Len(s)}
Last(s) == s[Len(s)]

RECURSIVE SeqsUpTo(_, _)
SeqsUpTo(S, n) ==
    IF n = 0 THEN {<<>>}
    ELSE LET shorter == SeqsUpTo(S, n - 1)
         IN shorter \cup {Append(s, x) : s \in shorter, x \in S}

RECURSIVE SortedSeq(_)
SortedSeq(S) ==
    IF S = {} THEN <<>>
    ELSE LET m == CHOOSE x \in S : \A y \in S : x <= y
         IN <<m>> \o SortedSeq(S \ {m})

----------------------------------------------------------------------------
(* Property bags. A property is [num, val]: num says whether the stored    *)
(* value is an int or a float, val stands for the number.                  *)

Str == [num |-> FALSE, val |-> 0]
Num(v) == [num |-> TRUE, val |-> v]

\* id, name, email, created_at, risk_score
UserProps == <<Str, Str, Str, Str, Num(1)>>

\* id, amount, timestamp, fraud_probability, label
InitTxProps(label) == <<Str, Num(1), Str, Num(1), Num(label)>>

\* Transaction.dict(): id, amount, timestamp, user_id, features (a list)
ApiTxProps == <<Str, Num(1), Str, Str, Str>>

\* a transaction_data dict with an id and input_dim numeric attributes
WideTxProps == <<Str>> \o [i \in 1..InputDim |-> Num(1)]

TxPropKinds == {"api", "wide"}
PropsOfKind(k) == IF k = "api" THEN ApiTxProps ELSE WideTxProps

NativeIds == 0..(Len(storeNodes) - 1)
NodeAt(n) == storeNodes[n + 1]

\* MATCH (x:label {id: id}): the native ids of the matching nodes
MatchLabelId(label, id) ==
    {n \in NativeIds : NodeAt(n).label = label /\ NodeAt(n).id = id}

\* MATCH (x {id: id}), no label: the native ids of the matching nodes
MatchId(id) == {n \in NativeIds : NodeAt(n).id = id}

NodesOfLabel(label) == {n \in NativeIds : NodeAt(n).label = label}

NewNode(label, id, props) == [label |-> label, id |-> id, props |-> props]
NewRel(s, t, type, ptype) ==
    [start |-> s, end |-> t, type |-> type, ptype |-> ptype]

----------------------------------------------------------------------------
(* init_data.init_neo4j: constraints, users, transactions, connections *)

\* for i in range(n): for j in range(i + 1, min(i + 3, n)), 1-based here
RECURSIVE PairsFrom(_, _, _)
PairsFrom(i, j, n) ==
    IF i > n THEN <<>>
    ELSE IF j > n \/ j >= i + ConnectWindow THEN PairsFrom(i + 1, i + 2, n)
    ELSE <<(<<i, j>>)>> \o PairsFrom(i, j + 1, n)

ConnectPairs == PairsFrom(1, 2, MaxInitTx)

InitConstraints ==
    /\ initPhase = "constraints"
    /\ constraints' = TRUE
    /\ initPhase' = "users"
    /\ UNCHANGED <<storeNodes, storeRels, pairIdx>>

InitCreateUser ==
    /\ initPhase = "users"
    /\ LET k == Cardinality(NodesOfLabel("User")) + 1
       IN /\ storeNodes' = Append(storeNodes, NewNode("User", UserId(k), UserProps))
          /\ initPhase' = IF k = MaxUsers THEN "transactions" ELSE "users"
    /\ UNCHANGED <<constraints, storeRels, pairIdx>>

InitCreateTransaction(user) ==
    /\ initPhase = "transactions"
    /\ LET k == Cardinality(NodesOfLabel("Transaction")) + 1
           t == Len(storeNodes)
           owners == SortedSeq(MatchLabelId("User", user))
       IN /\ storeNodes' = Append(storeNodes,
                 NewNode("Transaction", TxId(k), InitTxProps(LabelOf(k))))
          /\ storeRels' = storeRels \o
                 [i \in 1..Len(owners) |-> NewRel(t, owners[i], "BELONGS_TO", "")]
          /\ initPhase' = IF k < MaxInitTx THEN "transactions"
                          ELSE IF ConnectPairs = <<>> THEN "done"
                          ELSE "connections"
    /\ UNCHANGED <<constraints, pairIdx>>

InitConnect(create) ==
    /\ initPhase = "connections"
    /\ LET pair == ConnectPairs[pairIdx]
           from == SortedSeq(MatchLabelId("Transaction", TxId(pair[1])))
           to == SortedSeq(MatchLabelId("Transaction", TxId(pair[2])))
       IN storeRels' =
            IF create
            THEN storeRels \o
                 [i \in 1..(Len(from) * Len(to)) |->
                    NewRel(from[((i - 1) \div Len(to)) + 1],
                           to[((i - 1) % Len(to)) + 1], "CONNECTED_TO", "")]
            ELSE storeRels
    /\ pairIdx' = pairIdx + 1
    /\ initPhase' = IF pairIdx = Len(ConnectPairs) THEN "done" ELSE "connections"
    /\ UNCHANGED <<constraints, storeNodes>>

InitData ==
    /\ pc = "idle"
    /\ \/ InitConstraints
       \/ InitCreateUser
       \/ \E u \in {UserId(k) : k \in 1..MaxUsers} : InitCreateTransaction(u)
       \/ \E create \in BOOLEAN : InitConnect(create)
    /\ UNCHANGED <<apiWrites, pc, req, subVars, tensor, outcome, storeBefore, steps, gnnVars, apiVars, extVars>>


----------------------------------------------------------------------------
(* GraphRAG.update_graph: one auto-commit Cypher statement                 *)
(*   CREATE (t:Transaction $transaction_data) WITH t                       *)
(*   UNWIND $relationships as rel MATCH (related {id: rel.related_id})     *)
(*   CREATE (t)-[r:CONNECTED_TO]->(related) SET r += rel.properties        *)

\* the CREATE violates the Transaction.id uniqueness constraint
ViolatesConstraint(tx) ==
    constraints /\ MatchLabelId("Transaction", tx.id) # {}

\* the store's nodes after the CREATE of t
NodesAfterCreate(tx) ==
    Append(storeNodes, NewNode("Transaction", tx.id, PropsOfKind(tx.kind)))

\* the rows UNWIND and MATCH produce for one relationship: the nodes (of any
\* label, the new node included) whose id property is rel.related_id
RelatedOf(tx, rel) ==
    SortedSeq(MatchId(rel.related_id)
              \cup (IF tx.id = rel.related_id THEN {Len(storeNodes)} ELSE {}))

\* the relationships the statement creates, one per row
RECURSIVE CreatedRels(_, _)
CreatedRels(tx, relationships) ==
    IF relationships = <<>> THEN <<>>
    ELSE LET rel == Head(relationships)
             related == RelatedOf(tx, rel)
         IN [i \in 1..Len(related) |->
                NewRel(Len(storeNodes), related[i], "CONNECTED_TO", rel.ptype)]
            \o CreatedRels(tx, Tail(relationships))

UpdateGraphRaises(tx, relationships) ==
    IF ViolatesConstraint(tx) THEN "ConstraintError" ELSE ""

UpdateGraphNodes(tx, relationships) ==
    IF ViolatesConstraint(tx) THEN storeNodes ELSE NodesAfterCreate(tx)

UpdateGraphRels(tx, relationships) ==
    IF ViolatesConstraint(tx) THEN storeRels
    ELSE storeRels \o CreatedRels(tx, relationships)

----------------------------------------------------------------------------
(* GraphRAG._get_subgraph                                                  *)

\* the relationships incident to node n, in either direction
Incident(n) ==
    {i \in 1..Len(storeRels) : storeRels[i].start = n \/ storeRels[i].end = n}

OtherEnd(i, n) ==
    IF storeRels[i].start = n THEN storeRels[i].end ELSE storeRels[i].start

\* the paths of exactly k relationships from s; a path never repeats a
\* relationship (it may revisit a node)
RECURSIVE PathsOfLen(_, _)
PathsOfLen(s, k) ==
    IF k = 1
    THEN {[nodes |-> <<s, OtherEnd(i, s)>>, rels |-> <<i>>] : i \in Incident(s)}
    ELSE UNION {
           {[nodes |-> Append(p.nodes, OtherEnd(i, Last(p.nodes))),
             rels |-> Append(p.rels, i)] :
              i \in Incident(Last(p.nodes)) \ Range(p.rels)} :
           p \in PathsOfLen(s, k - 1)}

\* variant: the traversal stops after one hop whatever the depth
MatchPaths_OneHop(node_id, depth) ==
    UNION {PathsOfLen(s, 1) : s \in MatchLabelId("Transaction", node_id)}

\* variant: the start node is not filtered by its id property
MatchPaths_NoIdFilter(node_id, depth) ==
    UNION {UNION {PathsOfLen(s, k) : k \in 1..depth} :
           s \in NodesOfLabel("Transaction")}

\* MATCH path = (start:Transaction {id: $node_id})-[*1..$depth]-(related),
\* read with $depth as the upper hop bound: one record per path of 1..depth
\* relationships, followed in either direction, from a start node
MatchPaths(node_id, depth) ==
    UNION {UNION {PathsOfLen(s, k) : k \in 1..depth} :
           s \in MatchLabelId("Transaction", node_id)}

\* _extract_node_features: the numeric properties, in key order
RECURSIVE NumericValues(_)
NumericValues(props) ==
    IF props = <<>> THEN <<>>
    ELSE (IF Head(props).num THEN <<Head(props).val>> ELSE <<>>)
         \o NumericValues(Tail(props))

ExtractNodeFeatures(n) == NumericValues(NodeAt(n).props)

\* variant: only the first node of a path is collected
AddNodes_StartOnly(ns, seen, pathNodes) ==
    IF pathNodes = <<>> \/ Head(pathNodes) \in seen
    THEN [nodes |-> ns, seen |-> seen]
    ELSE [nodes |-> Append(ns, [id |-> Head(pathNodes),
                                features |-> ExtractNodeFeatures(Head(pathNodes))]),
          seen |-> seen \cup {Head(pathNodes)}]

\* for node in path.nodes: if node.id not in seen_nodes: append, add
RECURSIVE AddNodes(_, _, _)
AddNodes(ns, seen, pathNodes) ==
    IF pathNodes = <<>> THEN [nodes |-> ns, seen |-> seen]
    ELSE LET n == Head(pathNodes)
         IN IF n \notin seen
            THEN AddNodes(Append(ns, [id |-> n, features |-> ExtractNodeFeatures(n)]),
                          seen \cup {n}, Tail(pathNodes))
            ELSE AddNodes(ns, seen, Tail(pathNodes))

\* the edge dict built for relationship i: source, target, type and
\* properties (dict(rel), here the "type" property update_graph sets)
EdgeEntry(i) ==
    [source |-> storeRels[i].start, target |-> storeRels[i].end,
     type |-> storeRels[i].type, properties |-> storeRels[i].ptype]

\* variant: every relationship of a path is appended, seen or not
RECURSIVE AddEdges_NoDedup(_, _, _)
AddEdges_NoDedup(es, seen, pathRels) ==
    IF pathRels = <<>> THEN [edges |-> es, seen |-> seen]
    ELSE LET rel == storeRels[Head(pathRels)]
         IN AddEdges_NoDedup(Append(es, EdgeEntry(Head(pathRels))),
                             seen \cup {<<rel.start, rel.end>>}, Tail(pathRels))

\* variant: the key holds the properties too, so relationships that differ
\* in them give one entry each
RECURSIVE AddEdges_KeyWithProperties(_, _, _)
AddEdges_KeyWithProperties(es, seen, pathRels) ==
    IF pathRels = <<>> THEN [edges |-> es, seen |-> seen]
    ELSE LET rel == storeRels[Head(pathRels)]
             edge_key == <<rel.start, rel.end, rel.ptype>>
         IN IF edge_key \notin seen
            THEN AddEdges_KeyWithProperties(Append(es, EdgeEntry(Head(pathRels))),
                                            seen \cup {edge_key}, Tail(pathRels))
            ELSE AddEdges_KeyWithProperties(es, seen, Tail(pathRels))

\* variant: a relationship whose key was seen replaces the entry kept for it
RECURSIVE AddEdges_LastWins(_, _, _)
AddEdges_LastWins(es, seen, pathRels) ==
    IF pathRels = <<>> THEN [edges |-> es, seen |-> seen]
    ELSE LET rel == storeRels[Head(pathRels)]
             edge_key == <<rel.start, rel.end>>
         IN IF edge_key \notin seen
            THEN AddEdges_LastWins(Append(es, EdgeEntry(Head(pathRels))),
                                   seen \cup {edge_key}, Tail(pathRels))
            ELSE AddEdges_LastWins(
                     [i \in 1..Len(es) |->
                         IF <<es[i].source, es[i].target>> = edge_key
                         THEN EdgeEntry(Head(pathRels)) ELSE es[i]],
                     seen, Tail(pathRels))

\* for rel in path.relationships: if edge_key not in seen_edges: append, add
RECURSIVE AddEdges(_, _, _)
AddEdges(es, seen, pathRels) ==
    IF pathRels = <<>> THEN [edges |-> es, seen |-> seen]
    ELSE LET rel == storeRels[Head(pathRels)]
             edge_key == <<rel.start, rel.end>>
         IN IF edge_key \notin seen
            THEN AddEdges(Append(es, EdgeEntry(Head(pathRels))),
                          seen \cup {edge_key}, Tail(pathRels))
            ELSE AddEdges(es, seen, Tail(pathRels))

\* the relationships met so far, per edge key: the entry of the first and
\* of the last one met, in the order of "for rel in path.relationships"
RECURSIVE Observe(_, _)
Observe(obs, pathRels) ==
    IF pathRels = <<>> THEN obs
    ELSE LET entry == EdgeEntry(Head(pathRels))
             key == <<entry.source, entry.target>>
             old == {o \in obs : o.key = key}
         IN Observe((obs \ old)
                    \cup (IF old = {}
                          THEN {[key |-> key, first |-> entry, last |-> entry]}
                          ELSE {[o EXCEPT !.last = entry] : o \in old}),
                    Tail(pathRels))


----------------------------------------------------------------------------
(* GraphRAG._create_graph_data                                             *)

\* torch.tensor of a list of rows raises ValueError when the rows differ in
\* length
Ragged(rows) == \E i, j \in 1..Len(rows) : Len(rows[i]) # Len(rows[j])

\* variant: the rows are laid out from the last node to the first
NodeFeatures_Reversed(ns) == [i \in 1..Len(ns) |-> ns[Len(ns) + 1 - i].features]

\* [node['features'] for node in nodes]: row i is the i-th node's features
NodeFeatures(ns) == [i \in 1..Len(ns) |-> ns[i].features]

\* torch.tensor([[source, target], ...]).t(): a 2 x E matrix, or the empty
\* one-dimensional tensor when there is no edge
EdgeIndex(es) ==
    IF es = <<>> THEN <<>>
    ELSE <<[i \in 1..Len(es) |-> es[i].source],
           [i \in 1..Len(es) |-> es[i].target]>>

\* y = torch.tensor(labels) if labels else None
LabelTensor(labels) ==
    IF labels.some /\ labels.val # <<>> THEN Some(labels.val) ELSE None

\* variant: rows of different lengths are accepted
CreateGraphDataRaises_Never(ns, es, labels) == ""

CreateGraphDataRaises(ns, es, labels) ==
    IF Ragged(NodeFeatures(ns)) THEN "ValueError" ELSE ""

CreateGraphData(ns, es, labels) ==
    [x |-> NodeFeatures(ns),
     edge_index |-> EdgeIndex(es),
     y |-> LabelTensor(labels)]

NoTensor == [x |-> <<>>, edge_index |-> <<>>, y |-> None]

\* every value of an edge-index tensor
EdgeIndexValues(t) ==
    IF t.edge_index = <<>> THEN {}
    ELSE Range(t.edge_index[1]) \cup Range(t.edge_index[2])

----------------------------------------------------------------------------
(* FraudGNN.predict / forward, as far as the scoring call depends on it    *)

\* the forward pass raises: the first GCNConv needs a 2-dimensional x of
\* input_dim columns, a 2 x E edge_index, and edge-index values that are
\* rows of x
ForwardRaises(t) ==
    \/ Len(t.x) = 0
    \/ \E i \in 1..Len(t.x) : Len(t.x[i]) # InputDim
    \/ t.edge_index = <<>>
    \/ \E v \in EdgeIndexValues(t) : v < 0 \/ v >= Len(t.x)

\* variant: predict leaves the mode as it finds it
PredictMode_Keep(mode) == mode

\* FraudGNN.predict: self.eval() sets self.training to False
PredictMode(mode) == FALSE

\* FraudGNN.forward: F.dropout(x, p=self.dropout, training=self.training)
\* drops units exactly when the module is in training mode
DropoutActive(mode) == mode

\* one forward pass, by the method that ran it
Pass(inside, mode) == [inside |-> inside, dropout |-> DropoutActive(mode)]

----------------------------------------------------------------------------
(* FraudGNN.__init__: the layers                                           *)

\* hidden_dim: int = 64, num_layers: int = 3
HiddenDim == 64
DefaultLayers == 3

GCNConv(in_channels, out_channels) ==
    [in_channels |-> in_channels, out_channels |-> out_channels]

\* len(range(k)): no element when k <= 0
RangeLen(k) == IF k > 0 THEN k ELSE 0

\* self.conv_layers = nn.ModuleList([GCNConv(input_dim, hidden_dim),
\*     *[GCNConv(hidden_dim, hidden_dim) for _ in range(num_layers - 2)],
\*     GCNConv(hidden_dim, hidden_dim)])
ConvLayers(input_dim, hidden_dim, n) ==
    <<GCNConv(input_dim, hidden_dim)>>
    \o [k \in 1..RangeLen(n - 2) |-> GCNConv(hidden_dim, hidden_dim)]
    \o <<GCNConv(hidden_dim, hidden_dim)>>

----------------------------------------------------------------------------
(* FraudDetector.train: the loss of one example and its bookkeeping        *)

\* a float that is not finite (nan, inf)
NonFinite == -1

\* the finite values loss.item() takes in the model
LossLevels == {1, 2}

\* (epoch + 1) % 10 == 0
PrintEvery == 10

\* variant: the running total keeps the last loss only
Accumulate_Overwrite(total, loss) == loss

\* total_loss += loss.item(): float addition, which a non-finite operand
\* absorbs
Accumulate(total, loss) ==
    IF total = NonFinite \/ loss = NonFinite THEN NonFinite ELSE total + loss

\* avg_loss = total_loss / len(train_data), kept as the quotient's two terms
Average(total, n) == [num |-> total, den |-> n]

\* no epoch has finished yet
NoLoss == [num |-> 0, den |-> 0]

\* the probabilities the forward pass returns: a level, or nan once the
\* parameters are not finite
ProbValues(nan) == IF nan THEN {NonFinite} ELSE ProbLevels

\* criterion(output, target): BCELoss over the sigmoid output. BCELoss clamps
\* its logarithms, so with finite parameters and a finite target the loss
\* is a finite level; a target that is not finite makes it non-finite; with
\* non-finite parameters the output is nan and so is the loss
CriterionValues(nan, y) ==
    IF nan \/ y[1] = NonFinite THEN {NonFinite} ELSE LossLevels

----------------------------------------------------------------------------
(* GraphRAG._get_explanation_context                                       *)

Targets(t, type, label) ==
    {storeRels[i].end : i \in {j \in 1..Len(storeRels) :
        /\ storeRels[j].start = t
        /\ storeRels[j].type = type
        /\ NodeAt(storeRels[j].end).label = label}}

\* result.single(): the first record, None when there is none; {} for None
ExplanationContext(transaction_id) ==
    LET ts == MatchLabelId("Transaction", transaction_id)
    IN IF ts = {} THEN [found |-> FALSE, transaction |-> -1, user |-> -1,
                        related_transactions |-> {}]
       ELSE LET t == CHOOSE x \in ts : \A y \in ts : x <= y
                us == Targets(t, "BELONGS_TO", "User")
            IN [found |-> TRUE,
                transaction |-> t,
                user |-> IF us = {} THEN -1
                         ELSE CHOOSE x \in us : \A y \in us : x <= y,
                related_transactions |-> Targets(t, "CONNECTED_TO", "Transaction")]

NoContext == [found |-> FALSE, transaction |-> -1, user |-> -1,
              related_transactions |-> {}]


----------------------------------------------------------------------------
(* Requests *)

NoTx == [id |-> "", kind |-> "api"]
NoReq == [op |-> "", id |-> "", depth |-> 0, tx |-> NoTx, relationships |-> <<>>,
          labels |-> None, data |-> <<>>, epochs |-> 0]
NoOutcome == [kind |-> "none", error |-> "", fraud_probability |-> 0,
              is_fraudulent |-> FALSE, context |-> NoContext]
Raised(e) == [NoOutcome EXCEPT !.kind = "raise", !.error = e]
Returned == [NoOutcome EXCEPT !.kind = "ok"]

\* rel.properties carries the declared type under the key "type"
RelInputs == [related_id : AllIds, ptype : {"BELONGS_TO"}]
TxInputs == [id : TxIds, kind : TxPropKinds]

Serving == pc = "idle" /\ initPhase \in {"done", "skipped"}

\* graphrag.update_graph(transaction_data, relationships)
UpdateGraph(tx, relationships) ==
    /\ apiWrites' = apiWrites + 1
    /\ req' = [NoReq EXCEPT !.op = "update_graph", !.id = tx.id, !.tx = tx,
                            !.relationships = relationships]
    /\ storeBefore' = <<storeNodes, storeRels>>
    /\ storeNodes' = UpdateGraphNodes(tx, relationships)
    /\ storeRels' = UpdateGraphRels(tx, relationships)
    /\ outcome' = IF UpdateGraphRaises(tx, relationships) # ""
                  THEN Raised(UpdateGraphRaises(tx, relationships))
                  ELSE Returned
    /\ pc' = "done"
    /\ UNCHANGED <<initPhase, constraints, pairIdx, subVars, tensor, steps,
                   gnnVars, apiVars, extVars>>

CallUpdateGraph(tx, relationships) ==
    /\ Serving
    /\ apiWrites < MaxApiWrites
    /\ UpdateGraph(tx, relationships)

\* POST /predict: update_graph with the BELONGS_TO relationship to user_id,
\* then predict_fraud(transaction.id); any exception becomes HTTP 500
RoutePredict(id, user_id) ==
    LET tx == [id |-> id, kind |-> "api"]
        relationships == <<[related_id |-> user_id, ptype |-> "BELONGS_TO"]>>
    IN /\ apiWrites < MaxApiWrites
       /\ apiWrites' = apiWrites + 1
       /\ req' = [NoReq EXCEPT !.op = "route_predict", !.id = id,
                               !.depth = DefaultDepth, !.tx = tx,
                               !.relationships = relationships]
       /\ storeBefore' = <<storeNodes, storeRels>>
       /\ storeNodes' = UpdateGraphNodes(tx, relationships)
       /\ storeRels' = UpdateGraphRels(tx, relationships)
       /\ IF UpdateGraphRaises(tx, relationships) # ""
          THEN /\ outcome' = Raised(UpdateGraphRaises(tx, relationships))
               /\ pc' = "done"
          ELSE /\ outcome' = outcome
               /\ pc' = "query"
       /\ UNCHANGED <<initPhase, constraints, pairIdx, subVars, tensor, steps,
                      gnnVars, extVars>>

CallRoutePredict(id, user_id) ==
    /\ Serving
    /\ RoutePredict(id, user_id)
    /\ UNCHANGED apiVars

\* graphrag.retrieve_context(transaction_id, depth)
CallRetrieveContext(id, depth) ==
    /\ Serving
    /\ req' = [NoReq EXCEPT !.op = "retrieve_context", !.id = id, !.depth = depth]
    /\ storeBefore' = <<storeNodes, storeRels>>
    /\ pc' = "query"
    /\ UNCHANGED <<storeVars, apiWrites, subVars, tensor, outcome, steps,
                   gnnVars, apiVars, extVars>>

\* graphrag.predict_fraud(transaction_id): GET /transaction/{id}
PredictFraud(id) ==
    /\ req' = [NoReq EXCEPT !.op = "predict_fraud", !.id = id,
                            !.depth = DefaultDepth]
    /\ storeBefore' = <<storeNodes, storeRels>>
    /\ pc' = "query"
    /\ UNCHANGED <<storeVars, apiWrites, subVars, tensor, outcome, steps,
                   gnnVars, extVars>>

CallPredictFraud(id) ==
    /\ Serving
    /\ PredictFraud(id)
    /\ UNCHANGED apiVars

\* _get_subgraph: session.run(query, node_id, depth)
RunSubgraphQuery ==
    /\ pc = "query"
    /\ pending' = MatchPaths(req.id, req.depth)
    /\ nodes' = <<>>
    /\ edges' = <<>>
    /\ seen_nodes' = {}
    /\ seen_edges' = {}
    /\ observed' = {}
    /\ pc' = "iterating"
    /\ steps' = Append(steps, "retrieve")
    /\ UNCHANGED <<storeVars, apiWrites, req, tensor, outcome, storeBefore, gnnVars,
                   apiVars, extVars>>

\* _get_subgraph: one pass of "for record in result"; the store fixes no
\* order among the records
NextRecord(path) ==
    /\ pc = "iterating"
    /\ path \in pending
    /\ pending' = pending \ {path}
    /\ LET an == AddNodes(nodes, seen_nodes, path.nodes)
           ae == AddEdges(edges, seen_edges, path.rels)
       IN /\ nodes' = an.nodes
          /\ seen_nodes' = an.seen
          /\ edges' = ae.edges
          /\ seen_edges' = ae.seen
    /\ observed' = Observe(observed, path.rels)
    /\ UNCHANGED <<storeVars, apiWrites, pc, req, tensor, outcome, storeBefore, steps, gnnVars, apiVars, extVars>>

\* _get_subgraph: return nodes, edges
ReturnSubgraph ==
    /\ pc = "iterating"
    /\ pending = {}
    /\ pc' = "retrieved"
    /\ UNCHANGED <<storeVars, apiWrites, req, subVars, tensor, outcome, storeBefore, steps, gnnVars, apiVars, extVars>>

\* variant: the call goes on to its next step after a step has raised
AfterStep_Swallow(raised, next) == next

\* retrieve_context and predict_fraud catch nothing: an exception raised by
\* a step ends the call, otherwise the next step follows
AfterStep(raised, next) == IF raised THEN "done" ELSE next

\* the handlers of /train and /model/status call retrieve_context for the
\* first record and then name torch, which routes.py does not import
RecordLoopOps == {"route_train", "route_status"}

\* retrieve_context: return self._create_graph_data(nodes, edges)
BuildTensor ==
    /\ pc = "retrieved"
    /\ steps' = Append(steps, "build")
    /\ IF CreateGraphDataRaises(nodes, edges, None) # ""
       THEN /\ tensor' = tensor
            /\ outcome' = Raised(CreateGraphDataRaises(nodes, edges, None))
       ELSE /\ tensor' = CreateGraphData(nodes, edges, None)
            /\ outcome' = IF req.op = "retrieve_context" THEN Returned
                          ELSE IF req.op \in RecordLoopOps THEN Raised("NameError")
                          ELSE outcome
    /\ pc' = AfterStep(CreateGraphDataRaises(nodes, edges, None) # "",
                       IF req.op \in {"retrieve_context"} \cup RecordLoopOps
                       THEN "done" ELSE "built")
    /\ UNCHANGED <<storeVars, apiWrites, req, subVars, storeBefore, gnnVars, apiVars, extVars>>

\* predict_fraud: self.gnn_model.predict(graph_data, threshold)
Predict ==
    /\ pc = "built"
    /\ steps' = Append(steps, "predict")
    /\ training' = PredictMode(training)
    /\ passes' = passes \cup {Pass("predict", PredictMode(training))}
    /\ IF ForwardRaises(tensor)
       THEN outcome' = Raised("RuntimeError")
       ELSE \E p \in ProbValues(nan_params) :
               outcome' = [outcome EXCEPT !.fraud_probability = p,
                                          !.is_fraudulent = (p > DefaultThreshold)]
    /\ pc' = AfterStep(ForwardRaises(tensor), "predicted")
    /\ UNCHANGED <<storeVars, apiWrites, req, subVars, tensor, storeBefore,
                   params, modelBefore, epoch, batch, calls, apiVars, extVars>>

\* predict_fraud: self._get_explanation_context(transaction_id), return
Explain ==
    /\ pc = "predicted"
    /\ steps' = Append(steps, "context")
    /\ outcome' = [outcome EXCEPT !.kind = "ok",
                                  !.context = ExplanationContext(req.id)]
    /\ pc' = "done"
    /\ UNCHANGED <<storeVars, apiWrites, req, subVars, tensor, storeBefore, gnnVars,
                   apiVars, extVars>>

\* the call has returned or raised; the next request may start
Return ==
    /\ pc = "done"
    /\ IF suspended = {}
       THEN /\ pc' = "idle"
            /\ req' = NoReq
            /\ epoch' = 0
            /\ batch' = 0
            /\ suspended' = suspended
       ELSE \E f \in suspended :
               /\ pc' = f.pc
               /\ req' = f.req
               /\ epoch' = f.epoch
               /\ batch' = f.batch
               /\ suspended' = suspended \ {f}
    /\ pending' = {}
    /\ nodes' = <<>>
    /\ edges' = <<>>
    /\ seen_nodes' = {}
    /\ seen_edges' = {}
    /\ tensor' = NoTensor
    /\ outcome' = NoOutcome
    /\ storeBefore' = <<>>
    /\ observed' = {}
    /\ passes' = {}
    /\ modelBefore' = <<>>
    /\ steps' = <<>>
    /\ total_loss' = 0
    /\ avg_loss' = NoLoss
    /\ printed' = <<>>
    /\ losses' = <<>>
    /\ stepLog' = <<>>
    /\ UNCHANGED <<storeVars, apiWrites, training, params, calls, arrived,
                   fileVars, archVars, kafkaVars>>

\* the paths save_model and load_model are called with
Paths == {"model.pt", "other.pt"}

\* Python's None, for the fields that hold an object or None
NoObject == "None"
NoTransaction == [id |-> "", fraud_probability |-> 0, label |-> 0]

\* KafkaClient(), TransactionProcessor(kafka_client) and
\* TransactionGenerator(kafka_client) as their constructors leave them
InitKafka ==
    /\ producer = NoObject
    /\ consumer = NoObject
    /\ closed = {}
    /\ processed_count = 0
    /\ fraud_count = 0
    /\ delivered = <<>>
    /\ alerts = <<>>
    /\ running = FALSE
    /\ thread = NoObject
    /\ genPc = "none"
    /\ mainPc = "idle"
    /\ transaction = NoTransaction
    /\ lateCall = FALSE
    /\ cycles = 0

\* the parameters as state_dict() returns them, and a path with no file
NoState == [params |-> 0, nan |-> FALSE]
NoFile == [some |-> FALSE, val |-> <<>>]

\* the training locals, the parameters' finiteness and the saved files
InitExt ==
    /\ total_loss = 0
    /\ avg_loss = NoLoss
    /\ printed = <<>>
    /\ losses = <<>>
    /\ stepLog = <<>>
    /\ nan_params = FALSE
    /\ files = [path \in Paths |-> NoFile]
    /\ savedFrom = [path \in Paths |-> NoState]
    /\ InitKafka

\* gnn_model = FraudGNN(input_dim=64)
InitArch ==
    /\ num_layers = DefaultLayers
    /\ conv_layers = ConvLayers(InputDim, HiddenDim, DefaultLayers)
    /\ applied = 0
    /\ x_width = 0

InitCore ==
    /\ initPhase \in {"constraints", "skipped"}
    /\ constraints = FALSE
    /\ storeNodes = <<>>
    /\ storeRels = <<>>
    /\ pairIdx = 1
    /\ apiWrites = 0
    /\ pc = "idle"
    /\ req = NoReq
    /\ pending = {}
    /\ nodes = <<>>
    /\ edges = <<>>
    /\ seen_nodes = {}
    /\ seen_edges = {}
    /\ tensor = NoTensor
    /\ outcome = NoOutcome
    /\ storeBefore = <<>>
    /\ observed = {}
    /\ steps = <<>>
    /\ training = TRUE
    /\ params = 0
    /\ passes = {}
    /\ modelBefore = <<>>
    /\ epoch = 0
    /\ batch = 0
    /\ calls = 0
    /\ arrived = {}
    /\ suspended = {}
    /\ InitExt

Init ==
    /\ InitCore
    /\ InitArch

Next ==
    \/ InitData
    \/ \E tx \in TxInputs, relationships \in SeqsUpTo(RelInputs, MaxRelationships) :
          CallUpdateGraph(tx, relationships)
    \/ \E id \in TxIds, user_id \in UserIds : CallRoutePredict(id, user_id)
    \/ \E id \in AllIds, depth \in 1..MaxDepth : CallRetrieveContext(id, depth)
    \/ \E id \in AllIds : CallPredictFraud(id)
    \/ RunSubgraphQuery
    \/ \E path \in pending : NextRecord(path)
    \/ ReturnSubgraph
    \/ BuildTensor
    \/ Predict
    \/ Explain
    \/ Return

Spec == Init /\ [][Next]_vars


----------------------------------------------------------------------------
(* GraphRAG._create_graph_data on its own: the arguments are drawn from    *)
(* bounded sets, the call is applied to them                               *)

BuildIds == 0..(MaxBuildNodes - 1)
FeatureInputs == {<<1>>, <<2>>, <<1, 1>>}
BuildNodeInputs == SeqsUpTo([id : BuildIds, features : FeatureInputs], MaxBuildNodes)
BuildEdgeInputs ==
    SeqsUpTo([source : BuildIds, target : BuildIds, type : {"CONNECTED_TO"}],
             MaxBuildEdges)
BuildLabelInputs == {None} \cup {Some(l) : l \in SeqsUpTo({0, 1}, MaxBuildNodes)}

InitBuild ==
    /\ initPhase = "skipped"
    /\ constraints = FALSE
    /\ storeNodes = <<>>
    /\ storeRels = <<>>
    /\ pairIdx = 1
    /\ apiWrites = 0
    /\ pc = "build"
    /\ \E l \in BuildLabelInputs :
          req = [NoReq EXCEPT !.op = "create_graph_data", !.labels = l]
    /\ pending = {}
    /\ nodes \in BuildNodeInputs
    /\ edges \in BuildEdgeInputs
    /\ seen_nodes = {}
    /\ seen_edges = {}
    /\ tensor = NoTensor
    /\ outcome = NoOutcome
    /\ storeBefore = <<>>
    /\ observed = {}
    /\ steps = <<>>
    /\ training = TRUE
    /\ params = 0
    /\ passes = {}
    /\ modelBefore = <<>>
    /\ epoch = 0
    /\ batch = 0
    /\ calls = 0
    /\ arrived = {}
    /\ suspended = {}
    /\ InitExt
    /\ InitArch

\* graphrag._create_graph_data(nodes, edges, labels)
ApplyCreateGraphData ==
    /\ pc = "build"
    /\ IF CreateGraphDataRaises(nodes, edges, req.labels) # ""
       THEN /\ tensor' = tensor
            /\ outcome' = Raised(CreateGraphDataRaises(nodes, edges, req.labels))
       ELSE /\ tensor' = CreateGraphData(nodes, edges, req.labels)
            /\ outcome' = Returned
    /\ pc' = "done"
    /\ UNCHANGED <<storeVars, apiWrites, req, subVars, storeBefore, steps, gnnVars, apiVars, extVars>>

NextBuild == ApplyCreateGraphData

SpecBuild == InitBuild /\ [][NextBuild]_vars


----------------------------------------------------------------------------
(* FraudDetector.train / evaluate and FraudGNN.predict called directly on  *)
(* one model, one call after the other                                     *)

MaxCalls == 2
MaxEpochs == 2
MaxBatches == 2

\* a graph of one node with input_dim features and a self-loop
GraphData(y) ==
    [x |-> <<[i \in 1..InputDim |-> 1]>>, edge_index |-> <<(<<0>>), (<<0>>)>>, y |-> y]

DataInputs ==
    {GraphData(Some(<<0>>)), GraphData(Some(<<1>>)), GraphData(Some(<<NonFinite>>)),
     GraphData(None), NoTensor}

\* the model as the calls can change it
ModelState == <<training, params>>

\* fraud_detector.train(train_data, epochs): self.model.train(), the
\* optimizer and the criterion
CallTrain(train_data, epochs) ==
    /\ pc = "idle"
    /\ calls < MaxCalls
    /\ calls' = calls + 1
    /\ req' = [NoReq EXCEPT !.op = "train", !.data = train_data, !.epochs = epochs]
    /\ modelBefore' = ModelState
    /\ training' = TRUE
    /\ epoch' = 0
    /\ batch' = 0
    /\ pc' = "epoch"
    /\ UNCHANGED <<storeVars, apiWrites, subVars, tensor, outcome, storeBefore,
                   steps, params, passes, apiVars, extVars>>

\* train: for epoch in range(epochs): total_loss = 0
TrainEpoch ==
    /\ pc = "epoch"
    /\ IF epoch < req.epochs
       THEN /\ batch' = 1
            /\ total_loss' = 0
            /\ losses' = <<>>
            /\ pc' = "batch"
            /\ outcome' = outcome
       ELSE /\ batch' = batch
            /\ pc' = "done"
            /\ outcome' = Returned
            /\ UNCHANGED <<total_loss, losses>>
    /\ UNCHANGED <<storeVars, apiWrites, req, subVars, tensor, storeBefore, steps,
                   training, params, passes, modelBefore, epoch, calls, apiVars,
                   avg_loss, printed, stepLog, fileVars, archVars, kafkaVars>>

\* train: one pass of "for batch in train_data": zero_grad, forward,
\* criterion, loss.backward(), optimizer.step(), total_loss += loss.item().
\* Whether the criterion raises on a nan output depends on the torch build
\* (the CPU kernel checks 0 <= input <= 1), so both outcomes are kept.
TrainBatch ==
    /\ pc = "batch"
    /\ batch <= Len(req.data)
    /\ passes' = passes \cup {Pass("train", training)}
    /\ LET d == req.data[batch]
       IN \/ /\ ForwardRaises(d) \/ ~d.y.some \/ nan_params
             /\ outcome' = Raised(IF ForwardRaises(d) \/ d.y.some THEN "RuntimeError"
                                   ELSE "AttributeError")
             /\ pc' = "done"
             /\ UNCHANGED <<params, batch, total_loss, losses, stepLog, nan_params>>
          \/ /\ ~ForwardRaises(d)
             /\ d.y.some
             /\ \E loss \in CriterionValues(nan_params, d.y.val) :
                   /\ losses' = Append(losses, loss)
                   /\ total_loss' = Accumulate(total_loss, loss)
                   /\ params' = params + 1
                   /\ stepLog' = Append(stepLog, <<epoch, batch>>)
                   /\ nan_params' = (nan_params \/ loss = NonFinite)
                   /\ batch' = batch + 1
                   /\ UNCHANGED <<pc, outcome>>
    /\ UNCHANGED <<storeVars, apiWrites, req, subVars, tensor, storeBefore, steps,
                   training, modelBefore, epoch, calls, apiVars, avg_loss, printed,
                   files, savedFrom, archVars, kafkaVars>>

\* train: avg_loss = total_loss / len(train_data), the print of every tenth
\* epoch, then the next epoch
TrainEpochEnd ==
    /\ pc = "batch"
    /\ batch > Len(req.data)
    /\ IF Len(req.data) = 0
       THEN /\ outcome' = Raised("ZeroDivisionError")
            /\ pc' = "done"
            /\ epoch' = epoch
            /\ UNCHANGED <<avg_loss, printed>>
       ELSE /\ outcome' = outcome
            /\ pc' = "epoch"
            /\ epoch' = epoch + 1
            /\ avg_loss' = Average(total_loss, Len(req.data))
            /\ printed' = IF (epoch + 1) % PrintEvery = 0
                          THEN Append(printed,
                                      [epoch |-> epoch + 1,
                                       loss |-> Average(total_loss, Len(req.data))])
                          ELSE printed
    /\ UNCHANGED <<storeVars, apiWrites, req, subVars, tensor, storeBefore, steps,
                   training, params, passes, modelBefore, batch, calls, apiVars,
                   total_loss, losses, stepLog, fileVars, archVars, kafkaVars>>

\* fraud_detector.evaluate(test_data): self.model.eval()
CallEvaluate(test_data) ==
    /\ pc = "idle"
    /\ calls < MaxCalls
    /\ calls' = calls + 1
    /\ req' = [NoReq EXCEPT !.op = "evaluate", !.data = test_data]
    /\ modelBefore' = ModelState
    /\ training' = FALSE
    /\ batch' = 1
    /\ pc' = "eval"
    /\ UNCHANGED <<storeVars, apiWrites, subVars, tensor, outcome, storeBefore,
                   steps, params, passes, epoch, apiVars, extVars>>

\* evaluate: one pass of "for batch in test_data": self.model.predict(batch),
\* batch.y
EvaluateBatch ==
    /\ pc = "eval"
    /\ batch <= Len(req.data)
    /\ training' = PredictMode(training)
    /\ passes' = passes \cup {Pass("predict", PredictMode(training))}
    /\ LET d == req.data[batch]
       IN IF ForwardRaises(d) \/ ~d.y.some
          THEN /\ outcome' = Raised(IF ForwardRaises(d) THEN "RuntimeError"
                                    ELSE "AttributeError")
               /\ pc' = "done"
               /\ batch' = batch
          ELSE /\ batch' = batch + 1
               /\ UNCHANGED <<pc, outcome>>
    /\ UNCHANGED <<storeVars, apiWrites, req, subVars, tensor, storeBefore, steps,
                   params, modelBefore, epoch, calls, apiVars, extVars>>

\* evaluate: accuracy_score and roc_auc_score over the labels collected;
\* both raise ValueError on a nan label, and roc_auc_score raises it unless
\* both classes are present
EvaluateEnd ==
    /\ pc = "eval"
    /\ batch > Len(req.data)
    /\ LET labels == {req.data[i].y.val[1] : i \in 1..Len(req.data)}
       IN outcome' = IF NonFinite \in labels \/ Cardinality(labels) < 2
                     THEN Raised("ValueError")
                     ELSE Returned
    /\ pc' = "done"
    /\ UNCHANGED <<storeVars, apiWrites, req, subVars, tensor, storeBefore, steps,
                   gnnVars, apiVars, extVars>>

\* gnn_model.predict(data, threshold)
CallModelPredict(data) ==
    /\ pc = "idle"
    /\ calls < MaxCalls
    /\ calls' = calls + 1
    /\ req' = [NoReq EXCEPT !.op = "predict"]
    /\ tensor' = data
    /\ modelBefore' = ModelState
    /\ training' = PredictMode(training)
    /\ passes' = {Pass("predict", PredictMode(training))}
    /\ IF ForwardRaises(data)
       THEN outcome' = Raised("RuntimeError")
       ELSE \E p \in ProbValues(nan_params) :
               outcome' = [Returned EXCEPT !.fraud_probability = p,
                                           !.is_fraudulent = (p > DefaultThreshold)]
    /\ pc' = "done"
    /\ UNCHANGED <<storeVars, apiWrites, subVars, storeBefore, steps, params,
                   epoch, batch, apiVars, extVars>>

InitGnn ==
    /\ Init
    /\ initPhase = "skipped"

NextGnn ==
    \/ \E train_data \in SeqsUpTo(DataInputs, MaxBatches), epochs \in 0..MaxEpochs :
          CallTrain(train_data, epochs)
    \/ TrainEpoch
    \/ TrainBatch
    \/ TrainEpochEnd
    \/ \E test_data \in SeqsUpTo(DataInputs, MaxBatches) : CallEvaluate(test_data)
    \/ EvaluateBatch
    \/ EvaluateEnd
    \/ \E data \in DataInputs : CallModelPredict(data)
    \/ Return

SpecGnn == InitGnn /\ [][NextGnn]_vars


----------------------------------------------------------------------------
(* One call of FraudDetector.train on a fresh detector, long enough for    *)
(* the print of the tenth epoch                                            *)

MaxTrainEpochs == 10

TrainOnce(train_data, epochs) ==
    /\ calls = 0
    /\ CallTrain(train_data, epochs)

NextTrain ==
    \/ \E train_data \in SeqsUpTo(DataInputs, MaxBatches), epochs \in 0..MaxTrainEpochs :
          TrainOnce(train_data, epochs)
    \/ TrainEpoch
    \/ TrainBatch
    \/ TrainEpochEnd
    \/ Return

SpecTrain == InitGnn /\ [][NextTrain]_vars


----------------------------------------------------------------------------
(* FraudDetector.save_model / load_model between calls of train and        *)
(* predict on one detector                                                 *)

\* the names under which state_dict() lists the parameters of the modules
StateKeys(layers) ==
    {<<"conv_layers", k>> : k \in 0..(Len(layers) - 1)}
        \cup {<<"fc1", 0>>, <<"fc2", 0>>}

\* self.model.state_dict(): every parameter tensor under its name; all of
\* them are at the same optimizer step
StateDict ==
    [k \in StateKeys(conv_layers) |-> [params |-> params, nan |-> nan_params]]

\* variant: load_state_dict leaves the parameters as they are
LoadedState_Keep(state_dict, current) == current

\* load_state_dict(state_dict): the tensors of the dict are copied into the
\* parameters of the same name
LoadedState(state_dict, current) ==
    LET k == CHOOSE key \in DOMAIN state_dict : TRUE
    IN state_dict[k]

\* fraud_detector.save_model(path): torch.save(self.model.state_dict(), path)
SaveModel(path) ==
    /\ pc = "idle"
    /\ req' = [NoReq EXCEPT !.op = "save_model", !.id = path]
    /\ modelBefore' = ModelState
    /\ files' = [files EXCEPT ![path] = [some |-> TRUE, val |-> StateDict]]
    /\ savedFrom' = [savedFrom EXCEPT ![path] = [params |-> params,
                                                 nan |-> nan_params]]
    /\ outcome' = Returned
    /\ pc' = "done"
    /\ UNCHANGED <<storeVars, apiWrites, subVars, tensor, storeBefore, steps,
                   training, params, passes, epoch, batch, calls, apiVars,
                   lossVars, nan_params, archVars, kafkaVars>>

\* fraud_detector.load_model(path): torch.load(path) raises when there is no
\* file; load_state_dict is strict and raises RuntimeError on missing or
\* unexpected names
LoadModel(path) ==
    /\ pc = "idle"
    /\ req' = [NoReq EXCEPT !.op = "load_model", !.id = path]
    /\ modelBefore' = ModelState
    /\ IF ~files[path].some
       THEN /\ outcome' = Raised("FileNotFoundError")
            /\ UNCHANGED <<params, nan_params>>
       ELSE IF DOMAIN files[path].val # StateKeys(conv_layers)
       THEN /\ outcome' = Raised("RuntimeError")
            /\ UNCHANGED <<params, nan_params>>
       ELSE LET loaded == LoadedState(files[path].val,
                                      [params |-> params, nan |-> nan_params])
            IN /\ params' = loaded.params
               /\ nan_params' = loaded.nan
               /\ outcome' = Returned
    /\ pc' = "done"
    /\ UNCHANGED <<storeVars, apiWrites, subVars, tensor, storeBefore, steps,
                   training, passes, epoch, batch, calls, apiVars, lossVars,
                   files, savedFrom, archVars, kafkaVars>>

\* training over one example for one epoch is enough to move the parameters
NextSave ==
    \/ \E train_data \in SeqsUpTo(DataInputs, 1), epochs \in 0..1 :
          CallTrain(train_data, epochs)
    \/ TrainEpoch
    \/ TrainBatch
    \/ TrainEpochEnd
    \/ \E path \in Paths : SaveModel(path)
    \/ \E path \in Paths : LoadModel(path)
    \/ \E data \in DataInputs : CallModelPredict(data)
    \/ Return

SpecSave == InitGnn /\ [][NextSave]_vars


----------------------------------------------------------------------------
(* KafkaClient and the TransactionProcessor whose process_transaction is   *)
(* the callback of consume_transactions; one thread                        *)

MaxDelivered == 3

\* fraud_probability > 0.7, in hundredths
AlertThreshold == 70

\* the transactions the deserializer returns: every field of the Avro
\* schema is present; the fields process_transaction tests are kept
KafkaTransactions ==
    [id : {"K1", "K2"}, fraud_probability : {50, AlertThreshold, 71},
     label : {0, 1}]

\* what consumer.poll(1.0) returns: nothing, an end-of-partition event,
\* another error, a payload the deserializer rejects, or a transaction
Messages ==
    [kind : {"none", "eof", "error", "undecodable"}, value : {NoTransaction}]
        \cup [kind : {"transaction"}, value : KafkaTransactions]

\* variant: only the probability is tested
IsFraudulent_ProbabilityOnly(t) == t.fraud_probability > AlertThreshold

\* process_transaction: transaction.get("fraud_probability", 0) > 0.7 or
\* transaction.get("label", 0) == 1
IsFraudulent(t) == t.fraud_probability > AlertThreshold \/ t.label = 1

\* init_producer: if not self.producer: self.producer = Producer(conf)
InitProducer(current) == IF current = NoObject THEN "Producer" ELSE current

\* init_consumer: if not self.consumer: self.consumer = Consumer(conf)
InitConsumer(current) == IF current = NoObject THEN "Consumer" ELSE current

\* kafka_client.init_producer()
CallInitProducer ==
    /\ pc = "idle"
    /\ req' = [NoReq EXCEPT !.op = "init_producer"]
    /\ producer' = InitProducer(producer)
    /\ outcome' = Returned
    /\ pc' = "done"
    /\ UNCHANGED <<storeVars, apiWrites, subVars, tensor, storeBefore, steps,
                   gnnVars, apiVars, lossVars, fileVars, archVars, consumer,
                   closed, procVars, genVars>>

\* kafka_client.init_consumer()
CallInitConsumer ==
    /\ pc = "idle"
    /\ req' = [NoReq EXCEPT !.op = "init_consumer"]
    /\ consumer' = InitConsumer(consumer)
    /\ outcome' = Returned
    /\ pc' = "done"
    /\ UNCHANGED <<storeVars, apiWrites, subVars, tensor, storeBefore, steps,
                   gnnVars, apiVars, lossVars, fileVars, archVars, producer,
                   closed, procVars, genVars>>

\* kafka_client.consume_transactions(processor.process_transaction):
\* init_consumer when there is none, then subscribe, which a closed
\* consumer refuses
ConsumeTransactions ==
    /\ pc = "idle"
    /\ req' = [NoReq EXCEPT !.op = "consume_transactions"]
    /\ consumer' = InitConsumer(consumer)
    /\ IF "consumer" \in closed
       THEN /\ outcome' = Raised("RuntimeError")
            /\ pc' = "done"
       ELSE /\ outcome' = outcome
            /\ pc' = "poll"
    /\ UNCHANGED <<storeVars, apiWrites, subVars, tensor, storeBefore, steps,
                   gnnVars, apiVars, lossVars, fileVars, archVars, producer,
                   closed, procVars, genVars>>

\* processor.process_transaction(t): the counters, and for a fraudulent t
\* the alert and kafka_client.produce_alert(alert), which creates the
\* producer when there is none; whatever produce_alert raises is caught by
\* the loop of consume_transactions
ProcessTransaction(t) ==
    /\ processed_count' = processed_count + 1
    /\ delivered' = Append(delivered, t)
    /\ IF IsFraudulent(t)
       THEN /\ fraud_count' = fraud_count + 1
            /\ alerts' = Append(alerts, t.id)
            /\ producer' = InitProducer(producer)
       ELSE UNCHANGED <<fraud_count, alerts, producer>>

\* consume_transactions: one pass of "while True": poll, the error tests,
\* the deserializer and the callback
ConsumeStep(msg) ==
    /\ pc = "poll"
    /\ IF msg.kind = "transaction"
       THEN /\ Len(delivered) < MaxDelivered
            /\ ProcessTransaction(msg.value)
            /\ UNCHANGED <<pc, outcome>>
       ELSE IF msg.kind = "error"
       THEN /\ pc' = "done"
            /\ outcome' = Returned
            /\ UNCHANGED <<procVars, producer>>
       ELSE UNCHANGED <<pc, outcome, procVars, producer>>
    /\ UNCHANGED <<storeVars, apiWrites, req, subVars, tensor, storeBefore, steps,
                   gnnVars, apiVars, lossVars, fileVars, archVars, consumer,
                   closed, genVars>>

\* kafka_client.close(): flush and close the producer if there is one, close
\* the consumer if there is one; no field is assigned. confluent_kafka's
\* Producer has a close() only in some releases, so the call either raises
\* AttributeError, which ends close() before the consumer, or goes through
Close ==
    /\ pc = "idle"
    /\ req' = [NoReq EXCEPT !.op = "close"]
    /\ \/ /\ producer # NoObject
          /\ outcome' = Raised("AttributeError")
          /\ closed' = closed
       \/ /\ outcome' = Returned
          /\ closed' = closed
                \cup (IF producer # NoObject THEN {"producer"} ELSE {})
                \cup (IF consumer # NoObject THEN {"consumer"} ELSE {})
    /\ pc' = "done"
    /\ UNCHANGED <<storeVars, apiWrites, subVars, tensor, storeBefore, steps,
                   gnnVars, apiVars, lossVars, fileVars, archVars, producer,
                   consumer, procVars, genVars>>

NextKafka ==
    \/ CallInitProducer
    \/ CallInitConsumer
    \/ ConsumeTransactions
    \/ \E msg \in Messages : ConsumeStep(msg)
    \/ Close
    \/ Return

SpecKafka == InitGnn /\ [][NextKafka]_vars


----------------------------------------------------------------------------
(* TransactionGenerator: the controlling thread calls start() and stop()   *)
(* in turn, as main() does, while the thread start() created runs          *)
(* generate_and_send; the steps of the two threads interleave freely       *)

MaxCycles == 2

\* what neither thread of the generator touches
restVars == <<storeVars, apiWrites, pc, req, subVars, tensor, outcome,
              storeBefore, steps, gnnVars, apiVars, lossVars, fileVars,
              archVars, consumer, closed, procVars>>

\* variant: join returns without waiting for the thread
JoinReturns_NoWait(position) == TRUE

\* thread.join() returns once the thread's target has returned
JoinReturns(position) == position = "exit"

\* start(): self.running = True
StartSetRunning ==
    /\ mainPc \in {"idle", "stopped"}
    /\ cycles < MaxCycles
    /\ cycles' = cycles + 1
    /\ running' = TRUE
    /\ mainPc' = "start_thread"
    /\ UNCHANGED <<restVars, producer, thread, genPc, transaction, lateCall>>

\* start(): self.thread = threading.Thread(target=self.generate_and_send);
\* self.thread.start()
StartThread ==
    /\ mainPc = "start_thread"
    /\ thread' = "Thread"
    /\ genPc' = "test"
    /\ mainPc' = "started"
    /\ UNCHANGED <<restVars, producer, running, transaction, lateCall, cycles>>

\* stop(): self.running = False
StopClearRunning ==
    /\ mainPc \in {"idle", "started", "stopped"}
    /\ running' = FALSE
    /\ mainPc' = "join"
    /\ UNCHANGED <<restVars, producer, thread, genPc, transaction, lateCall,
                   cycles>>

\* stop(): if self.thread: self.thread.join(), then the print and the return
StopJoin ==
    /\ mainPc = "join"
    /\ thread # NoObject => JoinReturns(genPc)
    /\ mainPc' = "stopped"
    /\ UNCHANGED <<restVars, producer, running, thread, genPc, transaction,
                   lateCall, cycles>>

\* generate_and_send: "while self.running", then generate_transaction()
GenTest ==
    /\ genPc = "test"
    /\ IF running
       THEN /\ transaction' \in KafkaTransactions
            /\ genPc' = "produce"
       ELSE /\ transaction' = transaction
            /\ genPc' = "exit"
    /\ UNCHANGED <<restVars, producer, running, thread, mainPc, lateCall, cycles>>

\* generate_and_send: self.kafka_client.produce_transaction(transaction),
\* which creates the producer when there is none and returns or raises;
\* an exception is caught by the loop
GenProduce ==
    /\ genPc = "produce"
    /\ producer' = InitProducer(producer)
    /\ lateCall' = (lateCall \/ mainPc = "stopped")
    /\ genPc' \in {"sleep", "retry_sleep"}
    /\ UNCHANGED <<restVars, running, thread, mainPc, transaction, cycles>>

\* generate_and_send: time.sleep(...) after the send or in the handler, then
\* the loop test again
GenSleep ==
    /\ genPc \in {"sleep", "retry_sleep"}
    /\ genPc' = "test"
    /\ UNCHANGED <<restVars, producer, running, thread, mainPc, transaction,
                   lateCall, cycles>>

GenThread == GenTest \/ GenProduce \/ GenSleep

NextGenerator ==
    \/ StartSetRunning
    \/ StartThread
    \/ StopClearRunning
    \/ StopJoin
    \/ GenTest
    \/ GenProduce
    \/ GenSleep

\* a runnable thread is scheduled in the end, time.sleep returns, and each
\* produce_transaction call returns or raises; a join whose thread has
\* ended returns
SpecGenerator ==
    /\ InitGnn
    /\ [][NextGenerator]_vars
    /\ WF_vars(GenThread)
    /\ WF_vars(StopJoin)


----------------------------------------------------------------------------
(* FraudGNN(input_dim, hidden_dim, num_layers=n) constructed with          *)
(* arguments drawn from bounded sets, then FraudGNN.forward on a graph     *)
(* whose x has input_dim columns                                           *)

MaxLayers == 4

InputDims == {1, 2, InputDim}
HiddenDims == {2, HiddenDim}

\* FraudGNN.__init__(input_dim, hidden_dim, num_layers = n)
InitLayers ==
    /\ InitCore
    /\ initPhase = "skipped"
    /\ \E input_dim \in InputDims, hidden_dim \in HiddenDims, n \in 1..MaxLayers :
          /\ num_layers = n
          /\ conv_layers = ConvLayers(input_dim, hidden_dim, n)
    /\ applied = 0
    /\ x_width = 0

\* model(data): x, edge_index = data.x, data.edge_index
CallForward ==
    /\ pc = "idle"
    /\ req' = [NoReq EXCEPT !.op = "forward"]
    /\ applied' = 0
    /\ x_width' = conv_layers[1].in_channels
    /\ pc' = "forward"
    /\ UNCHANGED <<storeVars, apiWrites, subVars, tensor, outcome, storeBefore,
                   steps, gnnVars, apiVars, lossVars, fileVars, num_layers,
                   conv_layers, kafkaVars>>

\* forward: one pass of "for conv in self.conv_layers": x = conv(x,
\* edge_index), relu, dropout; conv multiplies x by a weight of in_channels
\* rows
ForwardLayer ==
    /\ pc = "forward"
    /\ applied < Len(conv_layers)
    /\ LET conv == conv_layers[applied + 1]
       IN IF x_width # conv.in_channels
          THEN /\ outcome' = Raised("RuntimeError")
               /\ pc' = "done"
               /\ UNCHANGED <<applied, x_width>>
          ELSE /\ x_width' = conv.out_channels
               /\ applied' = applied + 1
               /\ UNCHANGED <<pc, outcome>>
    /\ UNCHANGED <<storeVars, apiWrites, req, subVars, tensor, storeBefore, steps,
                   gnnVars, apiVars, lossVars, fileVars, num_layers, conv_layers,
                   kafkaVars>>

\* forward: global_mean_pool, fc1, dropout, fc2, sigmoid: one column
ForwardEnd ==
    /\ pc = "forward"
    /\ applied = Len(conv_layers)
    /\ x_width' = 1
    /\ outcome' = Returned
    /\ pc' = "done"
    /\ UNCHANGED <<storeVars, apiWrites, req, subVars, tensor, storeBefore, steps,
                   gnnVars, apiVars, lossVars, fileVars, num_layers, conv_layers,
                   applied, kafkaVars>>

NextLayers ==
    \/ CallForward
    \/ ForwardLayer
    \/ ForwardEnd
    \/ Return

SpecLayers == InitLayers /\ [][NextLayers]_vars


----------------------------------------------------------------------------
(* The API process: requests arrive at any time; the handlers are          *)
(* coroutines of one event loop, which runs a handler until it returns or  *)
(* awaits, and only then starts or resumes another                         *)

MaxRequests == 2

ApiRequests ==
    [kind : {"train"}, epochs : 0..MaxEpochs, id : {""}, user_id : {""}]
    \cup [kind : {"status"}, epochs : {0}, id : {""}, user_id : {""}]
    \cup [kind : {"transaction"}, epochs : {0}, id : TxIds, user_id : {""}]
    \cup [kind : {"predict"}, epochs : {0}, id : TxIds, user_id : UserIds]

\* variant: the training handler gives the loop away between two epochs
AwaitPoints_InTrain == {"epoch"}

\* the positions at which a handler awaits: the handlers of routes.py are
\* "async def" and hold no await
AwaitPoints == {}

\* the running handler's position and locals, as kept while it is suspended
Frame == [pc |-> pc, req |-> req, epoch |-> epoch, batch |-> batch]

InFlight == Cardinality(arrived) + Cardinality(suspended)
              + (IF pc = "idle" THEN 0 ELSE 1)

\* a request reaches the process
Arrive(r) ==
    /\ initPhase \in {"done", "skipped"}
    /\ r \notin arrived
    /\ InFlight < MaxRequests
    /\ arrived' = arrived \cup {r}
    /\ UNCHANGED <<storeVars, apiWrites, pc, req, subVars, tensor, outcome,
                   storeBefore, steps, gnnVars, suspended, extVars>>

\* the event loop starts the handler of r: it is free, or the running
\* handler is at an await
Dispatch(r) ==
    /\ r \in arrived
    /\ pc = "idle" \/ pc \in AwaitPoints
    /\ arrived' = arrived \ {r}
    /\ suspended' = IF pc = "idle" THEN suspended ELSE suspended \cup {Frame}

\* MATCH (t:Transaction) WHERE t.label IS NOT NULL
LabelledTransactions ==
    {n \in NodesOfLabel("Transaction") :
        \E l \in {0, 1} : NodeAt(n).props = InitTxProps(l)}

\* POST /train: retrieve_context for the first record of the result, or,
\* when there is no record, fraud_detector.train([], epochs)
HandleTrain(r) ==
    /\ r.kind = "train"
    /\ Dispatch(r)
    /\ storeBefore' = <<storeNodes, storeRels>>
    /\ modelBefore' = ModelState
    /\ IF LabelledTransactions = {}
       THEN /\ req' = [NoReq EXCEPT !.op = "route_train", !.epochs = r.epochs]
            /\ training' = TRUE
            /\ epoch' = 0
            /\ batch' = 0
            /\ pc' = "epoch"
       ELSE /\ \E t \in LabelledTransactions :
                 req' = [NoReq EXCEPT !.op = "route_train", !.epochs = r.epochs,
                                      !.id = NodeAt(t).id, !.depth = DefaultDepth]
            /\ pc' = "query"
            /\ UNCHANGED <<training, epoch, batch>>
    /\ UNCHANGED <<storeVars, apiWrites, subVars, tensor, outcome, steps, params,
                   passes, calls, extVars>>

\* GET /model/status: the same loop, then fraud_detector.evaluate([])
HandleStatus(r) ==
    /\ r.kind = "status"
    /\ Dispatch(r)
    /\ storeBefore' = <<storeNodes, storeRels>>
    /\ modelBefore' = ModelState
    /\ IF LabelledTransactions = {}
       THEN /\ req' = [NoReq EXCEPT !.op = "route_status"]
            /\ training' = FALSE
            /\ batch' = 1
            /\ pc' = "eval"
       ELSE /\ \E t \in LabelledTransactions :
                 req' = [NoReq EXCEPT !.op = "route_status", !.id = NodeAt(t).id,
                                      !.depth = DefaultDepth]
            /\ pc' = "query"
            /\ UNCHANGED <<training, batch>>
    /\ UNCHANGED <<storeVars, apiWrites, subVars, tensor, outcome, steps, params,
                   passes, epoch, calls, extVars>>

\* GET /transaction/{transaction_id}
HandleGetTransaction(r) ==
    /\ r.kind = "transaction"
    /\ Dispatch(r)
    /\ PredictFraud(r.id)

\* POST /predict
HandlePredict(r) ==
    /\ r.kind = "predict"
    /\ Dispatch(r)
    /\ RoutePredict(r.id, r.user_id)

\* in the API process train and evaluate only ever get an empty list (the
\* record loop raises at its first record), so their batch loops do not run;
\* no node the routes or the loader write has input_dim numeric attributes,
\* so the forward pass of a scoring request raises and the explanation
\* lookup is not reached
NextApi ==
    \/ InitData
    \/ \E r \in ApiRequests : Arrive(r)
    \/ \E r \in arrived : HandleTrain(r)
    \/ \E r \in arrived : HandleStatus(r)
    \/ \E r \in arrived : HandleGetTransaction(r)
    \/ \E r \in arrived : HandlePredict(r)
    \/ RunSubgraphQuery
    \/ \E path \in pending : NextRecord(path)
    \/ ReturnSubgraph
    \/ BuildTensor
    \/ Predict
    \/ TrainEpoch
    \/ TrainEpochEnd
    \/ EvaluateEnd
    \/ Return

SpecApi == Init /\ [][NextApi]_vars


----------------------------------------------------------------------------
(* GraphRAG.update_graph called several times on one store; each call is   *)
(* one auto-commit statement, so calls made concurrently take effect one   *)
(* after the other, in any order                                           *)

MaxWrites == 2
MaxWriteRelationships == 1

WriteUpdateGraph(tx, relationships) ==
    /\ Serving
    /\ apiWrites < MaxWrites
    /\ UpdateGraph(tx, relationships)

NextWrites ==
    \/ InitData
    \/ \E tx \in TxInputs,
          relationships \in SeqsUpTo(RelInputs, MaxWriteRelationships) :
          WriteUpdateGraph(tx, relationships)
    \/ Return

SpecWrites == Init /\ [][NextWrites]_vars


----------------------------------------------------------------------------
(* Retrieval after an update_graph whose relationships, to the first user  *)
(* or the first transaction of the loader, are declared of either type     *)

DeclaredTypes == {"BELONGS_TO", "CONNECTED_TO"}
TypedRelInputs == [related_id : {UserId(1), TxId(1)}, ptype : DeclaredTypes]

NextDedup ==
    \/ InitData
    \/ \E id \in TxIds,
          relationships \in SeqsUpTo(TypedRelInputs, MaxRelationships) :
          CallUpdateGraph([id |-> id, kind |-> "api"], relationships)
    \/ \E id \in TxIds, depth \in 1..MaxDepth : CallRetrieveContext(id, depth)
    \/ RunSubgraphQuery
    \/ \E path \in pending : NextRecord(path)
    \/ ReturnSubgraph
    \/ BuildTensor
    \/ Return

SpecDedup == Init /\ [][NextDedup]_vars


----------------------------------------------------------------------------
(* The claims *)

NodeIds(ns) == {ns[i].id : i \in 1..Len(ns)}

\* _get_subgraph has returned (nodes, edges)
SubgraphReturned == pc = "retrieved"

\* retrieve_context has produced a tensor
TensorProduced ==
    \/ pc \in {"built", "predicted"}
    \/ pc = "done" /\ req.op = "retrieve_context" /\ outcome.kind = "ok"

\* C1: every value of the edge index of a tensor produced by
\* retrieve_context is a row index of its node-feature matrix,
\* 0 <= idx < N.
C1_EdgeIndexInRange ==
    TensorProduced =>
        \A v \in EdgeIndexValues(tensor) : 0 <= v /\ v < Len(tensor.x)

\* an edge of es names a source or target that is the id of no node of ns
HasMissingNode(ns, es) ==
    \E i \in 1..Len(es) :
        es[i].source \notin NodeIds(ns) \/ es[i].target \notin NodeIds(ns)

\* C2: building a tensor from (nodes, edges) where an edge names a node
\* absent from nodes fails with MissingNodeError and returns no tensor.
C2_MissingNodeError ==
    (pc = "done" /\ req.op = "create_graph_data" /\ HasMissingNode(nodes, edges))
        => (outcome = Raised("MissingNodeError") /\ tensor = NoTensor)

\* C3: the (nodes, edges) that subgraph retrieval returns is closed: the
\* source and the target of every returned edge are ids of returned nodes.
C3_SubgraphClosed ==
    SubgraphReturned =>
        \A i \in 1..Len(edges) :
            edges[i].source \in NodeIds(nodes) /\ edges[i].target \in NodeIds(nodes)

C3_Witness ==
    /\ SubgraphReturned
    /\ req.depth = 2
    /\ Len(edges) >= 3
    /\ Len(nodes) >= 4

\* some declared relationship names an id that no node of the store had when
\* update_graph was called
HasDanglingTarget ==
    \E i \in 1..Len(req.relationships) :
        \A n \in 1..Len(storeBefore[1]) :
            storeBefore[1][n].id # req.relationships[i].related_id

\* C4: update_graph with a relationship whose target id is not in the store
\* raises DanglingReferenceError and leaves the store unchanged.
C4_DanglingRejected ==
    (pc = "done" /\ req.op = "update_graph" /\ HasDanglingTarget)
        => /\ outcome = Raised("DanglingReferenceError")
           /\ <<storeNodes, storeRels>> = storeBefore

\* the root id names exactly one transaction, and it has no relationship
IsolatedRoot ==
    LET ts == MatchLabelId("Transaction", req.id)
    IN Cardinality(ts) = 1 /\ \A t \in ts : Incident(t) = {}

\* C5: retrieval with depth 2 rooted at a transaction that has no
\* relationships returns exactly one node, the root, and no edge.
C5_IsolatedRootReturned ==
    (SubgraphReturned /\ req.depth = 2 /\ IsolatedRoot)
        => /\ Len(nodes) = 1
           /\ NodeIds(nodes) = MatchLabelId("Transaction", req.id)
           /\ edges = <<>>

\* the store T1-[BELONGS_TO]->U1, T1-[CONNECTED_TO]->T2, T2-[BELONGS_TO]->U2
ScenarioB(t1, u1, t2, u2) ==
    /\ Len(storeNodes) = 4
    /\ MatchLabelId("Transaction", TxId(1)) = {t1}
    /\ MatchLabelId("Transaction", TxId(2)) = {t2}
    /\ MatchLabelId("User", UserId(1)) = {u1}
    /\ MatchLabelId("User", UserId(2)) = {u2}
    /\ Len(storeRels) = 3
    /\ Range(storeRels) = {NewRel(t1, u1, "BELONGS_TO", ""),
                           NewRel(t1, t2, "CONNECTED_TO", ""),
                           NewRel(t2, u2, "BELONGS_TO", "")}

Edge(s, t, type) == [source |-> s, target |-> t, type |-> type, properties |-> ""]

\* C6: in that store, retrieval rooted at T1 with depth 2 returns exactly the
\* nodes T1, U1, T2, U2 and exactly one edge entry for each of the three
\* relationships.
C6_ScenarioBResult ==
    \A t1, u1, t2, u2 \in NativeIds :
        (/\ SubgraphReturned
         /\ req.id = TxId(1)
         /\ req.depth = 2
         /\ ScenarioB(t1, u1, t2, u2))
        => /\ Len(nodes) = 4
           /\ NodeIds(nodes) = {t1, u1, t2, u2}
           /\ Len(edges) = 3
           /\ Range(edges) = {Edge(t1, u1, "BELONGS_TO"),
                              Edge(t1, t2, "CONNECTED_TO"),
                              Edge(t2, u2, "BELONGS_TO")}

\* the traversal of scenario B has returned its three paths, two of which
\* hold the relationship T1 -> T2
C6_Witness ==
    /\ SubgraphReturned
    /\ req.id = TxId(1)
    /\ req.depth = 2
    /\ \E t1, u1, t2, u2 \in NativeIds : ScenarioB(t1, u1, t2, u2)
    /\ Cardinality(MatchPaths(req.id, req.depth)) = 3
    /\ \E p, q \in MatchPaths(req.id, req.depth) :
          p # q /\ Range(p.rels) \cap Range(q.rels) # {}
    /\ Len(nodes) = 4

\* C7: whatever the store and the order of the paths, the retrieval result
\* holds no node id twice and no (source, target) pair twice.
C7_NoDuplicates ==
    pc \in {"iterating", "retrieved"} =>
        /\ \A i, j \in 1..Len(nodes) : nodes[i].id = nodes[j].id => i = j
        /\ \A i, j \in 1..Len(edges) :
              (edges[i].source = edges[j].source /\ edges[i].target = edges[j].target)
                  => i = j

\* the paths iterated hold two distinct relationships with the same start and
\* end, and two of the paths share a relationship
C7_Witness ==
    /\ SubgraphReturned
    /\ Len(edges) >= 2
    /\ \E p, q \in MatchPaths(req.id, req.depth) :
          p # q /\ Range(p.rels) \cap Range(q.rels) # {}
    /\ \E p, q \in MatchPaths(req.id, req.depth) :
          \E i \in Range(p.rels), j \in Range(q.rels) :
              /\ i # j
              /\ storeRels[i].start = storeRels[j].start
              /\ storeRels[i].end = storeRels[j].end

\* C8: retrieval for a root id that no node of the store has returns an
\* empty node list and an empty edge list, and raises nothing.
C8_UnknownRootEmpty ==
    (pc \in {"iterating", "retrieved"} /\ MatchId(req.id) = {})
        => /\ pending = {}
           /\ nodes = <<>>
           /\ edges = <<>>
           /\ outcome.kind = "none"

C8_Witness ==
    /\ SubgraphReturned
    /\ MatchId(req.id) = {}
    /\ Len(storeRels) >= 2
    /\ nodes = <<>>

\* C9: predict_fraud returns a result, and does not raise, when the
\* transaction id is unknown or the retrieved subgraph has no nodes or no
\* edges.
C9_ScoringNeverRaises ==
    (pc = "done" /\ req.op = "predict_fraud" /\ (nodes = <<>> \/ edges = <<>>))
        => outcome.kind = "ok"

\* C10: building a tensor with a labels list whose length differs from the
\* number of nodes fails with LabelMismatchError and returns no tensor.
C10_LabelMismatchError ==
    (/\ pc = "done"
     /\ req.op = "create_graph_data"
     /\ req.labels.some
     /\ Len(req.labels.val) # Len(nodes))
        => (outcome = Raised("LabelMismatchError") /\ tensor = NoTensor)

\* C11: a tensor build whose nodes do not all have feature vectors of the same
\* length fails with a construction error (torch's ValueError) and returns no
\* tensor: nothing is truncated or padded.
C11_RaggedBuildFails ==
    (/\ pc = "done"
     /\ req.op = "create_graph_data"
     /\ \E i, j \in 1..Len(nodes) : Len(nodes[i].features) # Len(nodes[j].features))
        => (outcome = Raised("ValueError") /\ tensor = NoTensor)

C11_Witness ==
    /\ pc = "done"
    /\ req.op = "create_graph_data"
    /\ Len(nodes) = 2
    /\ Len(nodes[1].features) < Len(nodes[2].features)
    /\ outcome.kind = "raise"

\* C12: a successful build lays the rows out in the order of the input
\* sequence: the matrix has one row per node and row i holds the features of
\* the i-th node, so the row of a node depends on the sequence alone.
C12_RowsInInputOrder ==
    (pc = "done" /\ req.op = "create_graph_data" /\ outcome.kind = "ok")
        => /\ Len(tensor.x) = Len(nodes)
           /\ \A i \in 1..Len(nodes) : tensor.x[i] = nodes[i].features

\* two nodes, the larger id first, with different features of one length
C12_Witness ==
    /\ pc = "done"
    /\ req.op = "create_graph_data"
    /\ outcome.kind = "ok"
    /\ Len(nodes) = 2
    /\ nodes[1].id > nodes[2].id
    /\ nodes[1].features # nodes[2].features
    /\ tensor.x = <<nodes[1].features, nodes[2].features>>

\* C13: predict leaves the model as it found it: after predict has returned,
\* the parameters and the training/inference mode flag have the values they
\* had before the call.
C13_PredictKeepsModelState ==
    (pc = "done" /\ req.op = "predict" /\ outcome.kind = "ok")
        => ModelState = modelBefore

\* C14: whatever calls came before, every forward pass that predict runs has
\* dropout disabled.
C14_PredictWithoutDropout ==
    \A p \in passes : p.inside = "predict" => ~p.dropout

\* predict has run on a model that a training run with optimizer steps left
\* in training mode
C14_Witness ==
    /\ pc = "done"
    /\ req.op = "predict"
    /\ outcome.kind = "ok"
    /\ modelBefore = <<TRUE, MaxBatches>>
    /\ passes # {}

\* the handlers that have started and not finished
Handlers == suspended \cup (IF pc = "idle" THEN {} ELSE {Frame})

\* the handler is inside FraudDetector.train
InTraining(f) == f.req.op = "route_train" /\ f.pc \in {"epoch", "batch"}

\* the handler is inside a training run, or about to run or running a
\* forward pass of predict or evaluate
OnModel(f) == f.pc \in {"epoch", "batch", "built", "eval"}

IdExisted ==
    \E n \in 1..Len(storeBefore[1]) :
        storeBefore[1][n].label = "Transaction" /\ storeBefore[1][n].id = req.id

\* C16: the store never holds two Transaction nodes with the same id, and an
\* update_graph whose transaction id already exists fails with a constraint
\* violation and leaves the store unchanged.
C16_UniqueTransactionIds ==
    /\ \A m, n \in NodesOfLabel("Transaction") :
          NodeAt(m).id = NodeAt(n).id => m = n
    /\ (pc = "done" /\ req.op = "update_graph" /\ IdExisted)
          => /\ outcome = Raised("ConstraintError")
             /\ <<storeNodes, storeRels>> = storeBefore

\* every declared relationship names the id of exactly one node the store
\* held when update_graph was called
TargetsResolved ==
    \A i \in 1..Len(req.relationships) :
        Cardinality({n \in 1..Len(storeBefore[1]) :
            storeBefore[1][n].id = req.relationships[i].related_id}) = 1

\* C17: a successful update_graph adds exactly one transaction node and, for
\* each declared relationship, exactly one edge from the new node to the
\* declared target with the declared type; the rest of the store is as it was.
C17_WritesDeclaredEdges ==
    (/\ pc = "done"
     /\ req.op = "update_graph"
     /\ outcome.kind = "ok"
     /\ TargetsResolved)
        => LET n == Len(storeBefore[1])
               r == Len(storeBefore[2])
           IN /\ Len(storeNodes) = n + 1
              /\ SubSeq(storeNodes, 1, n) = storeBefore[1]
              /\ storeNodes[n + 1].label = "Transaction"
              /\ storeNodes[n + 1].id = req.id
              /\ Len(storeRels) = r + Len(req.relationships)
              /\ SubSeq(storeRels, 1, r) = storeBefore[2]
              /\ \A i \in 1..Len(req.relationships) :
                    /\ storeRels[r + i].start = n
                    /\ NodeAt(storeRels[r + i].end).id
                          = req.relationships[i].related_id
                    /\ storeRels[r + i].type = req.relationships[i].ptype

\* the entries of es whose (source, target) is key
EntriesOf(es, key) == {i \in 1..Len(es) : <<es[i].source, es[i].target>> = key}

ScoringSteps == <<"retrieve", "build", "predict", "context">>

\* C20: a scoring call runs subgraph retrieval, tensor construction without
\* labels, scorer.predict and the explanation-context lookup in this order,
\* each once, before it returns its result; once a step has raised the call
\* is over: no later step runs and no result is returned.
C20_ScoringStepOrder ==
    req.op \in {"predict_fraud", "route_predict"} =>
        /\ Len(steps) <= Len(ScoringSteps)
        /\ steps = SubSeq(ScoringSteps, 1, Len(steps))
        /\ pc \in {"built", "predicted"} => tensor.y = None
        /\ outcome.kind = "ok" => steps = ScoringSteps
        /\ outcome.kind = "raise" => (pc = "done" /\ steps # ScoringSteps)

\* a scoring call has returned a result
C20_Witness ==
    /\ pc = "done"
    /\ req.op = "predict_fraud"
    /\ outcome.kind = "ok"
    /\ outcome.context.found
    /\ steps = ScoringSteps


----------------------------------------------------------------------------
(* C21 *)

\* the sum of a sequence of losses, a non-finite one making it non-finite
RECURSIVE SumLosses(_)
SumLosses(ls) ==
    IF ls = <<>> THEN 0
    ELSE IF NonFinite \in Range(ls) THEN NonFinite
    ELSE ls[1] + SumLosses(Tail(ls))

\* the k-th optimizer step of a call over n examples: its epoch and example
StepAt(k, n) == <<(k - 1) \div n, ((k - 1) % n) + 1>>

\* C21: a call of train over n >= 1 examples takes its optimizer steps one
\* per example per epoch, in input order; when it returns it has taken
\* epochs * n of them; the average loss of a finished epoch, and the line
\* printed for it, is the sum of that epoch's per-example losses over n
C21_StepsAndEpochLoss ==
    (req.op = "train" /\ Len(req.data) >= 1) =>
        LET n == Len(req.data)
        IN /\ \A k \in 1..Len(stepLog) : stepLog[k] = StepAt(k, n)
           /\ params = modelBefore[2] + Len(stepLog)
           /\ (outcome.kind = "ok" => Len(stepLog) = req.epochs * n)
           /\ (pc = "epoch" /\ epoch >= 1) =>
                  /\ Len(losses) = n
                  /\ avg_loss = [num |-> SumLosses(losses), den |-> n]
                  /\ (epoch % PrintEvery = 0) =>
                        /\ printed # <<>>
                        /\ Last(printed) = [epoch |-> epoch, loss |-> avg_loss]

\* a call over two examples has returned after ten epochs, and the line of
\* the tenth epoch carries the sum of two different losses
C21_Witness ==
    /\ req.op = "train"
    /\ outcome.kind = "ok"
    /\ Len(req.data) = 2
    /\ req.epochs = MaxTrainEpochs
    /\ Len(stepLog) = 2 * MaxTrainEpochs
    /\ Len(printed) = 1
    /\ losses = <<1, 2>>
    /\ printed[1].loss = [num |-> 3, den |-> 2]

----------------------------------------------------------------------------
(* C22 *)

\* the call of train is running with an example of the current epoch whose
\* loss is not finite
NonFiniteLossSeen == req.op = "train" /\ NonFinite \in Range(losses)

\* the position in the epoch of the first example with a non-finite loss
FirstNonFinite == CHOOSE k \in 1..Len(losses) :
                      /\ losses[k] = NonFinite
                      /\ \A j \in 1..(k - 1) : losses[j] # NonFinite

\* C22: once the loss of an example is not finite, train has raised an
\* error at that example and has applied no optimizer step after it
C22_NonFiniteLossAborts ==
    NonFiniteLossSeen =>
        /\ pc = "done"
        /\ outcome.kind = "raise"
        /\ Len(losses) = FirstNonFinite
        /\ Len(stepLog) < epoch * Len(req.data) + FirstNonFinite

----------------------------------------------------------------------------
(* C26 *)

\* every example of the call has a label and a graph the forward pass takes
ValidExamples ==
    \A i \in 1..Len(req.data) : ~ForwardRaises(req.data[i]) /\ req.data[i].y.some

\* C26: a call of train over well-formed examples with finite losses, the
\* empty sequence included, ends without an error, and over no example it
\* leaves the parameters as they were
C26_TrainTerminatesNormally ==
    (req.op \in {"train", "route_train"} /\ pc = "done"
        /\ ValidExamples /\ ~nan_params) =>
        /\ outcome.kind = "ok"
        /\ (Len(req.data) = 0 => params = modelBefore[2])

----------------------------------------------------------------------------
(* C25 *)

\* C25: a model constructed with num_layers = n >= 1 holds exactly n
\* message-passing layers, the first from input_dim to hidden_dim and the
\* later ones from hidden_dim to hidden_dim, and a forward pass applies as
\* many layers as the stored num_layers says
C25_LayerCountIsNumLayers ==
    num_layers >= 1 =>
        /\ Len(conv_layers) = num_layers
        /\ \A k \in 2..Len(conv_layers) :
              /\ conv_layers[k].in_channels = conv_layers[1].out_channels
              /\ conv_layers[k].out_channels = conv_layers[1].out_channels
        /\ (req.op = "forward" /\ outcome.kind = "ok") => applied = num_layers

----------------------------------------------------------------------------
(* C23 *)

----------------------------------------------------------------------------
(* C24 *)

\* C24: once close() has returned, the producer and the consumer fields of
\* the client are both None
C24_CloseClearsFields ==
    (req.op = "close" /\ pc = "done" /\ outcome.kind = "ok") =>
        /\ producer = NoObject
        /\ consumer = NoObject

----------------------------------------------------------------------------
(* C27 *)

\* the positions of the delivered transactions that are fraudulent: a
\* probability above 0.7 or a label of 1
FraudulentAt ==
    {i \in 1..Len(delivered) :
        delivered[i].fraud_probability > 70 \/ delivered[i].label = 1}

\* the ids of the fraudulent transactions among the first k delivered
RECURSIVE FraudIds(_)
FraudIds(k) ==
    IF k = 0 THEN <<>>
    ELSE IF k \in FraudulentAt THEN Append(FraudIds(k - 1), delivered[k].id)
    ELSE FraudIds(k - 1)

\* C27: processed_count is the number of transactions delivered,
\* fraud_count the number of fraudulent ones among them and never above
\* processed_count, and produce_alert was called once for each fraudulent
\* transaction, in order, and for no other
C27_CountsAndAlerts ==
    /\ processed_count = Len(delivered)
    /\ fraud_count = Cardinality(FraudulentAt)
    /\ fraud_count <= processed_count
    /\ alerts = FraudIds(Len(delivered))

\* three transactions were delivered: one fraudulent by its label only, one
\* by its probability only, one not fraudulent at the threshold itself
C27_Witness ==
    /\ processed_count = 3
    /\ fraud_count = 2
    /\ \E i, j, k \in 1..3 :
          /\ delivered[i].label = 1 /\ delivered[i].fraud_probability = 50
          /\ delivered[j].label = 0 /\ delivered[j].fraud_probability = 71
          /\ delivered[k].label = 0 /\ delivered[k].fraud_probability = 70
    /\ Len(alerts) = 2

----------------------------------------------------------------------------
(* C28 *)

\* stop() has returned and no start() has begun since
StopReturned == mainPc = "stopped"

\* C28: once stop() has returned, the thread start() created has ended and
\* no produce_transaction call begins any more; and a stop() that has
\* begun returns
C28_StopEndsGenerator ==
    /\ [](StopReturned => (thread # NoObject => genPc = "exit"))
    /\ [](~lateCall)
    /\ (mainPc = "join") ~> StopReturned

\* stop() has returned after the thread had sent at least one transaction
C28_Witness ==
    /\ StopReturned
    /\ thread # NoObject
    /\ genPc = "exit"
    /\ producer # NoObject
    /\ cycles = MaxCycles

====
